---- MODULE Spec2Model ----
(***************************************************************************)
(* Model of the message formatter of the WhatsApp iOS-style converter bot  *)
(* (services/messageFormatter.js).  A JavaScript string is a sequence of   *)
(* UTF-16 code units, modelled as a sequence of naturals; a character      *)
(* outside the Basic Multilingual Plane is a surrogate pair of two units.  *)
(* convertToIOSStyle is a straight-line procedure of six assignments to    *)
(* styledText; each assignment is one action of the model.                 *)
(***************************************************************************)
EXTENDS Integers, Sequences, FiniteSets, TLC

VARIABLES text, styledText, before, pc, calls,
          settings, tasks, replies,
          isClientReady, qrCodeData, events, response

convertVars == <<text, styledText, before, pc, calls>>

botVars == <<settings, tasks, replies>>

sessionVars == <<isClientReady, qrCodeData, events, response>>

vars == <<convertVars, botVars, sessionVars>>

(***************************************************************************)
(* Code units named in the source.                                         *)
(***************************************************************************)
Star == 42
Underscore == 95
Tilde == 126
Backtick == 96
DoubleQuote == 34
SingleQuote == 39
CombiningStroke == 822
VariationSelector == 65039
ZeroWidthSpace == 8203

(***************************************************************************)
(* UTF-16: the code units of one code point, and the code point that       *)
(* starts at index i of a string when the string is read by code point     *)
(* (a high surrogate followed by a low surrogate is one code point, any    *)
(* other unit, a lone surrogate included, is a code point of its own).     *)
(***************************************************************************)
IsHighSurrogate(u) == u \in 55296..56319

IsLowSurrogate(u) == u \in 56320..57343

Utf16(cp) ==
    IF cp < 65536 THEN <<cp>>
    ELSE <<55296 + ((cp - 65536) \div 1024), 56320 + ((cp - 65536) % 1024)>>

IsPairAt(s, i) ==
    /\ i + 1 <= Len(s)
    /\ IsHighSurrogate(s[i])
    /\ IsLowSurrogate(s[i + 1])

WidthAt(s, i) == IF IsPairAt(s, i) THEN 2 ELSE 1

CodePointAt(s, i) ==
    IF IsPairAt(s, i)
    THEN 65536 + (s[i] - 55296) * 1024 + (s[i + 1] - 56320)
    ELSE s[i]

(***************************************************************************)
(* The glyph tables: each maps one code unit (text.split('') yields code   *)
(* units) to the code units of its replacement, or to itself when the      *)
(* table has no entry (boldMap[char] || char).  The tables are contiguous: *)
(* 'A' -> U+1D5D4, 'a' -> U+1D5EE, '0' -> U+1D7EC for bold, and so on.     *)
(***************************************************************************)
boldMap(char) ==
    IF char \in 65..90 THEN Utf16(char + 120211)
    ELSE IF char \in 97..122 THEN Utf16(char + 120205)
    ELSE IF char \in 48..57 THEN Utf16(char + 120764)
    ELSE <<char>>

italicMapWithDigits(char) ==
    IF char \in 65..90 THEN Utf16(char + 120263)
    ELSE IF char \in 97..122 THEN Utf16(char + 120257)
    ELSE IF char \in 48..57 THEN Utf16(char + 120764)
    ELSE <<char>>

italicMap(char) ==
    IF char \in 65..90 THEN Utf16(char + 120263)
    ELSE IF char \in 97..122 THEN Utf16(char + 120257)
    ELSE <<char>>

monospaceMap(char) ==
    IF char \in 65..90 THEN Utf16(char + 120367)
    ELSE IF char \in 97..122 THEN Utf16(char + 120361)
    ELSE IF char \in 48..57 THEN Utf16(char + 120774)
    ELSE <<char>>

RECURSIVE toBoldUnicode(_)
toBoldUnicode(t) ==
    IF t = <<>> THEN <<>> ELSE boldMap(Head(t)) \o toBoldUnicode(Tail(t))

RECURSIVE toItalicUnicode(_)
toItalicUnicode(t) ==
    IF t = <<>> THEN <<>> ELSE italicMap(Head(t)) \o toItalicUnicode(Tail(t))

RECURSIVE toStrikethroughUnicode(_)
toStrikethroughUnicode(t) ==
    IF t = <<>> THEN <<>>
    ELSE <<Head(t), CombiningStroke>> \o toStrikethroughUnicode(Tail(t))

RECURSIVE toMonospaceUnicode(_)
toMonospaceUnicode(t) ==
    IF t = <<>> THEN <<>>
    ELSE monospaceMap(Head(t)) \o toMonospaceUnicode(Tail(t))

(***************************************************************************)
(* The replacement a pass computes for one match, given the captured       *)
(* group.  The quote passes substitute "$1" into the replacement string of *)
(* the source, whose two quote characters are the straight ones.           *)
(***************************************************************************)
DoubleQuoteReplacementNoGroup(content) == <<DoubleQuote, DoubleQuote>>

DoubleQuoteReplacement(content) == <<DoubleQuote>> \o content \o <<DoubleQuote>>

SingleQuoteReplacement(content) == <<SingleQuote>> \o content \o <<SingleQuote>>

Replacement(pass, content) ==
    CASE pass = "bold" -> toBoldUnicode(content)
      [] pass = "italic" -> toItalicUnicode(content)
      [] pass = "strike" -> toStrikethroughUnicode(content)
      [] pass = "mono" -> toMonospaceUnicode(content)
      [] pass = "dquote" -> DoubleQuoteReplacement(content)
      [] pass = "squote" -> SingleQuoteReplacement(content)

(***************************************************************************)
(* String.prototype.replace with a global regular expression  d([^d]+)d :  *)
(* matches are sought left to right, each search starting where the last   *)
(* match ended.  A match at i needs s[i] = d, at least one unit other than *)
(* d after it, and a d after that run; [^d]+ cannot cross a d, so the      *)
(* closing d is the first d after i.  Where no match starts, the unit is   *)
(* copied and the search moves one unit on.                                *)
(***************************************************************************)
RECURSIVE RunEnd(_, _, _)
RunEnd(s, i, d) ==
    IF i <= Len(s) /\ s[i] # d THEN RunEnd(s, i + 1, d) ELSE i

MatchEndOrEndOfInput(s, i, d) ==
    IF i <= Len(s) /\ s[i] = d /\ RunEnd(s, i + 1, d) > i + 1
    THEN RunEnd(s, i + 1, d)
    ELSE 0

RECURSIVE LastDelimiter(_, _, _)
LastDelimiter(s, i, d) ==
    IF i < 1 \/ s[i] = d THEN i ELSE LastDelimiter(s, i - 1, d)

MatchEndGreedy(s, i, d) ==
    IF i <= Len(s) /\ s[i] = d /\ LastDelimiter(s, Len(s), d) > i + 1
    THEN LastDelimiter(s, Len(s), d)
    ELSE 0

MatchEndEmptyAllowed(s, i, d) ==
    IF i <= Len(s) /\ s[i] = d /\ RunEnd(s, i + 1, d) <= Len(s)
    THEN RunEnd(s, i + 1, d)
    ELSE 0

MatchEnd(s, i, d) ==
    IF i <= Len(s) /\ s[i] = d /\ RunEnd(s, i + 1, d) > i + 1
                    /\ RunEnd(s, i + 1, d) <= Len(s)
    THEN RunEnd(s, i + 1, d)
    ELSE 0

RECURSIVE ReplaceFrom(_, _, _, _)
ReplaceFrom(s, i, d, pass) ==
    IF i > Len(s) THEN <<>>
    ELSE IF MatchEnd(s, i, d) # 0
    THEN Replacement(pass, SubSeq(s, i + 1, MatchEnd(s, i, d) - 1))
             \o ReplaceFrom(s, MatchEnd(s, i, d) + 1, d, pass)
    ELSE <<s[i]>> \o ReplaceFrom(s, i + 1, d, pass)

convertBold(t) == ReplaceFrom(t, 1, Star, "bold")

convertItalic(t) == ReplaceFrom(t, 1, Underscore, "italic")

convertStrikethrough(t) == ReplaceFrom(t, 1, Tilde, "strike")

(***************************************************************************)
(* The monospace expression  ```([^`]+)```  : three backticks, a non-empty *)
(* run of units other than a backtick, three backticks.  The run is the    *)
(* maximal one: a shorter run is followed by a unit that is no backtick.   *)
(***************************************************************************)
IsMarkerAt(s, i) ==
    /\ i >= 1
    /\ i + 2 <= Len(s)
    /\ s[i] = Backtick
    /\ s[i + 1] = Backtick
    /\ s[i + 2] = Backtick

MonoMatchEnd(s, i) ==
    IF IsMarkerAt(s, i) /\ RunEnd(s, i + 3, Backtick) > i + 3
                        /\ IsMarkerAt(s, RunEnd(s, i + 3, Backtick))
    THEN RunEnd(s, i + 3, Backtick) + 2
    ELSE 0

RECURSIVE MonoReplaceFrom(_, _)
MonoReplaceFrom(s, i) ==
    IF i > Len(s) THEN <<>>
    ELSE IF MonoMatchEnd(s, i) # 0
    THEN Replacement("mono", SubSeq(s, i + 3, MonoMatchEnd(s, i) - 3))
             \o MonoReplaceFrom(s, MonoMatchEnd(s, i) + 1)
    ELSE <<s[i]>> \o MonoReplaceFrom(s, i + 1)

convertMonospace(t) == MonoReplaceFrom(t, 1)

convertQuotes(t) ==
    ReplaceFrom(ReplaceFrom(t, 1, DoubleQuote, "dquote"), 1, SingleQuote, "squote")

(***************************************************************************)
(* The Unicode properties of the emoji expression, as far as they concern  *)
(* the code points of the model's inputs: \p{Emoji_Presentation} holds of  *)
(* U+231A WATCH and U+1F600 GRINNING FACE; \p{Emoji} holds of those and of *)
(* '#', '*', the digits, U+00A9, U+00AE and U+2764 HEAVY BLACK HEART.  No   *)
(* other unit of the inputs (letters, delimiters, quotes, glyphs, U+0336,  *)
(* U+200B, U+FE0F, lone surrogates) has either property.                   *)
(***************************************************************************)
EmojiPresentation == {8986, 128512}

Emoji == EmojiPresentation \cup {35, 42, 169, 174, 10084} \cup (48..57)

(***************************************************************************)
(* replace(/(\p{Emoji_Presentation}|\p{Emoji}\uFE0F)/gu, '$1\u200B'): with  *)
(* the u flag the string is read by code point.  The first alternative is  *)
(* tried first, so a code point with emoji presentation matches alone,     *)
(* whatever follows it.                                                    *)
(***************************************************************************)
EmojiMatchWidthNoSelector(s, i) ==
    IF CodePointAt(s, i) \in Emoji THEN WidthAt(s, i) ELSE 0

EmojiMatchWidth(s, i) ==
    IF CodePointAt(s, i) \in EmojiPresentation THEN WidthAt(s, i)
    ELSE IF /\ CodePointAt(s, i) \in Emoji
            /\ i + WidthAt(s, i) <= Len(s)
            /\ s[i + WidthAt(s, i)] = VariationSelector
    THEN WidthAt(s, i) + 1
    ELSE 0

RECURSIVE EmojiReplaceFrom(_, _)
EmojiReplaceFrom(s, i) ==
    IF i > Len(s) THEN <<>>
    ELSE IF EmojiMatchWidth(s, i) # 0
    THEN SubSeq(s, i, i + EmojiMatchWidth(s, i) - 1) \o <<ZeroWidthSpace>>
             \o EmojiReplaceFrom(s, i + EmojiMatchWidth(s, i))
    ELSE SubSeq(s, i, i + WidthAt(s, i) - 1)
             \o EmojiReplaceFrom(s, i + WidthAt(s, i))

improveEmojiSpacing(t) == EmojiReplaceFrom(t, 1)

(***************************************************************************)
(* convertToIOSStyle: the order of its six assignments.                    *)
(***************************************************************************)
PassOrderItalicFirst == <<"italic", "bold", "strike", "mono", "quotes", "emoji">>

PassOrder == <<"bold", "italic", "strike", "mono", "quotes", "emoji">>

NumPasses == Len(PassOrder)

(***************************************************************************)
(* Bounds of the model and the inputs it explores.                         *)
(***************************************************************************)
MaxStyleLen == 5
MaxPairLen == 6
MaxBoldLen == 7
MaxMonoLen == 11
MaxQuoteLen == 6
MaxEmojiLen == 4
MaxInterior == 2
MaxCalls == 2

RECURSIVE SeqsUpTo(_, _)
SeqsUpTo(S, n) ==
    IF n = 0 THEN {<<>>}
    ELSE LET shorter == SeqsUpTo(S, n - 1)
         IN  shorter \cup {Append(t, u) : t \in {x \in shorter : Len(x) = n - 1}, u \in S}

(***************************************************************************)
(* Message bodies.  Each family mixes the units one group of passes reads: *)
(* the three one-character delimiters with a letter; two delimiters, and   *)
(* one delimiter, in longer texts; backticks; quotes around a bold glyph   *)
(* (U+1D5EE, units 55349 56814); emoji (U+1F600 as 55357 56832, U+231A),   *)
(* the variation selector, a digit and a tilde; and one span of each style *)
(* whose interior runs over the edges of the glyph tables ('@' 'A' 'Z'     *)
(* '[', 'a' 'z', '/' '0' '9' ':') and a surrogate pair, and one run        *)
(* between quotes of each kind over the same interiors.                    *)
(***************************************************************************)
StyleAlphabet == {Star, Underscore, Tilde, 97}

PairAlphabet == {Star, Underscore, 97}

BoldAlphabet == {Star, 97}

MonoAlphabet == {Backtick, 97}

QuoteAlphabet == {DoubleQuote, 55349, 56814}

EmojiAlphabet == {55357, 56832, 8986, VariationSelector, 49, Tilde}

InteriorAlphabet == {64, 65, 90, 91, 97, 122, 47, 48, 57, 58, 55357, 56832}

Wrapped(open, X) == {open \o x \o open : x \in X}

Inputs ==
    SeqsUpTo(StyleAlphabet, MaxStyleLen)
        \cup SeqsUpTo(PairAlphabet, MaxPairLen)
        \cup SeqsUpTo(BoldAlphabet, MaxBoldLen)
        \cup SeqsUpTo(MonoAlphabet, MaxMonoLen)
        \cup SeqsUpTo(QuoteAlphabet, MaxQuoteLen)
        \cup SeqsUpTo(EmojiAlphabet, MaxEmojiLen)
        \cup UNION {Wrapped(open, SeqsUpTo(InteriorAlphabet, MaxInterior)) :
                       open \in {<<Star>>, <<Underscore>>, <<Tilde>>,
                                 <<Backtick, Backtick, Backtick>>,
                                 <<DoubleQuote>>, <<SingleQuote>>}}

(***************************************************************************)
(* convertToIOSStyle as a function of its argument, as the message handler *)
(* calls it: the six passes in the order of the source.                    *)
(***************************************************************************)
convertToIOSStyle(t) ==
    improveEmojiSpacing(convertQuotes(convertMonospace(
        convertStrikethrough(convertItalic(convertBold(t))))))

(***************************************************************************)
(* The message handler.  A task is one invocation of the 'message'         *)
(* callback; it suspends at  await message.getChat()  and at               *)
(* await message.reply(replyText) , and any number of tasks may be         *)
(* suspended at once.  replies[t] are the replies sent for message t.      *)
(* String.prototype.trim removes the white space and line terminators of   *)
(* ECMAScript; a body made of them only, the empty body included, is       *)
(* skipped.  The reply prefix is the literal of server.js.                 *)
(***************************************************************************)
MaxTasks == 2

Tasks == 1..MaxTasks

WhiteSpace ==
    {9, 10, 11, 12, 13, 32, 160, 5760, 8232, 8233, 8239, 8287, 12288, 65279}
        \cup (8192..8202)

IsBlank(s) == \A i \in 1..Len(s) : s[i] \in WhiteSpace

hasFormatting(s) ==
    \E i \in 1..Len(s) : s[i] \in {Star, Underscore, Tilde, Backtick}

ReplyPrefix ==
    <<55357, 56561, 32, 105, 79, 83, 32, 83, 116, 121, 108, 101, 58, 10, 10>>

Bodies == {<<>>, <<32>>, <<97>>, <<Star, 97, Star>>, <<8986>>}

NoTask ==
    [state |-> "none", body |-> <<>>, isGroup |-> FALSE, broadcast |-> FALSE,
     iosStyledMessage |-> <<>>, threw |-> FALSE]

ConvertInputLatest(t) ==
    tasks[CHOOSE u \in Tasks :
              /\ tasks[u].state # "none"
              /\ \A v \in Tasks : tasks[v].state # "none" => v <= u].body

ConvertInput(t) == tasks[t].body

ShouldReplyAlways(originalText, iosStyled) == TRUE

ShouldReply(originalText, iosStyled) == iosStyled # originalText

Skipped(t) ==
    \/ (settings.ignoreGroups /\ tasks[t].isGroup)
    \/ (settings.ignoreBroadcasts /\ tasks[t].broadcast)
    \/ IsBlank(ConvertInput(t))
    \/ (settings.onlyProcessFormatted /\ ~hasFormatting(ConvertInput(t)))

(***************************************************************************)
(* The dashboard's session state: the two flags of part_000, the client    *)
(* events seen so far (a history, for the properties) and what the last    *)
(* HTTP response reported, with the number of events handled before it.    *)
(* A QR string is a sequence of ASCII code units, the empty string <<>>;   *)
(* encodeURIComponent keeps the unreserved characters and writes every     *)
(* other ASCII character as a percent sign and two hexadecimal digits.     *)
(* qrImage holds the image URL the page embeds, if it embeds one.          *)
(***************************************************************************)
MaxEvents == 4

QrCodes == {<<49, 64>>, <<50>>}

Unreserved ==
    (48..57) \cup (65..90) \cup (97..122) \cup {45, 95, 46, 33, 126, 42, 39, 40, 41}

HexDigit(n) == IF n < 10 THEN 48 + n ELSE 55 + n

RECURSIVE encodeURIComponent(_)
encodeURIComponent(s) ==
    IF s = <<>> THEN <<>>
    ELSE (IF Head(s) \in Unreserved THEN <<Head(s)>>
          ELSE <<37, HexDigit(Head(s) \div 16), HexDigit(Head(s) % 16)>>)
             \o encodeURIComponent(Tail(s))

generateImageURL(qrData) ==
    [url |-> "https://api.qrserver.com/v1/create-qr-code/?size=300x300&data=",
     encodedData |-> encodeURIComponent(qrData)]

NoResponse ==
    [route |-> "none", at |-> 0, connected |-> FALSE, qrAvailable |-> FALSE,
     qrImage |-> <<>>]

QrAfterReadyKept(qr) == qr

QrAfterReady(qr) == <<>>

(***************************************************************************)
(* The initial states: of the converter called on a message body, of the   *)
(* message handler and of the dashboard.  Each specification starts one of *)
(* the three and leaves the other two at rest.                             *)
(***************************************************************************)
ConvertAtRest ==
    /\ text = <<>>
    /\ styledText = <<>>
    /\ before = <<>>
    /\ pc = NumPasses + 1
    /\ calls = MaxCalls

BotAtStart ==
    /\ tasks = [t \in Tasks |-> NoTask]
    /\ replies = [t \in Tasks |-> <<>>]

BotAtRest ==
    /\ settings = [ignoreGroups |-> FALSE, ignoreBroadcasts |-> FALSE,
                   onlyProcessFormatted |-> FALSE]
    /\ BotAtStart

SessionAtStart ==
    /\ isClientReady = FALSE
    /\ qrCodeData = <<>>
    /\ events = <<>>
    /\ response = NoResponse

(***************************************************************************)
(* The state machine of one convert call.  pc is the index in PassOrder of *)
(* the next assignment of the running call (NumPasses + 1 once the call    *)
(* has returned); before is the value styledText had before the last       *)
(* assignment.                                                             *)
(***************************************************************************)
Init ==
    /\ text \in Inputs
    /\ styledText = text
    /\ before = text
    /\ pc = 1
    /\ calls = 1
    /\ BotAtRest
    /\ SessionAtStart

Bold ==
    /\ pc <= NumPasses
    /\ PassOrder[pc] = "bold"
    /\ before' = styledText
    /\ styledText' = convertBold(styledText)
    /\ pc' = pc + 1
    /\ UNCHANGED <<text, calls, botVars, sessionVars>>

Italic ==
    /\ pc <= NumPasses
    /\ PassOrder[pc] = "italic"
    /\ before' = styledText
    /\ styledText' = convertItalic(styledText)
    /\ pc' = pc + 1
    /\ UNCHANGED <<text, calls, botVars, sessionVars>>

Strikethrough ==
    /\ pc <= NumPasses
    /\ PassOrder[pc] = "strike"
    /\ before' = styledText
    /\ styledText' = convertStrikethrough(styledText)
    /\ pc' = pc + 1
    /\ UNCHANGED <<text, calls, botVars, sessionVars>>

Monospace ==
    /\ pc <= NumPasses
    /\ PassOrder[pc] = "mono"
    /\ before' = styledText
    /\ styledText' = convertMonospace(styledText)
    /\ pc' = pc + 1
    /\ UNCHANGED <<text, calls, botVars, sessionVars>>

Quotes ==
    /\ pc <= NumPasses
    /\ PassOrder[pc] = "quotes"
    /\ before' = styledText
    /\ styledText' = convertQuotes(styledText)
    /\ pc' = pc + 1
    /\ UNCHANGED <<text, calls, botVars, sessionVars>>

EmojiSpacing ==
    /\ pc <= NumPasses
    /\ PassOrder[pc] = "emoji"
    /\ before' = styledText
    /\ styledText' = improveEmojiSpacing(styledText)
    /\ pc' = pc + 1
    /\ UNCHANGED <<text, calls, botVars, sessionVars>>

Reconvert ==
    /\ pc = NumPasses + 1
    /\ calls < MaxCalls
    /\ text' = styledText
    /\ styledText' = styledText
    /\ before' = styledText
    /\ pc' = 1
    /\ calls' = calls + 1
    /\ UNCHANGED <<botVars, sessionVars>>

Next ==
    \/ Bold
    \/ Italic
    \/ Strikethrough
    \/ Monospace
    \/ Quotes
    \/ EmojiSpacing
    \/ Reconvert

Spec == Init /\ [][Next]_vars

(***************************************************************************)
(* The 'message' callback of part_000 (server.js has the same callback     *)
(* without the three settings, that is with all of them off).  Messages    *)
(* are numbered in the order they arrive.                                  *)
(***************************************************************************)
Receive(t) ==
    /\ tasks[t].state = "none"
    /\ IF t = 1 THEN TRUE ELSE tasks[t - 1].state # "none"
    /\ \E body \in Bodies, group \in BOOLEAN, bcast \in BOOLEAN :
           tasks' = [tasks EXCEPT ![t] =
                        [NoTask EXCEPT !.state = "getChat", !.body = body,
                                       !.isGroup = group, !.broadcast = bcast]]
    /\ UNCHANGED <<settings, replies, convertVars, sessionVars>>

GetChatThrows(t) ==
    /\ tasks[t].state = "getChat"
    /\ tasks' = [tasks EXCEPT ![t].state = "returned", ![t].threw = TRUE]
    /\ UNCHANGED <<settings, replies, convertVars, sessionVars>>

GetChatResolves(t) ==
    /\ tasks[t].state = "getChat"
    /\ tasks' = [tasks EXCEPT ![t] =
           IF Skipped(t) THEN [@ EXCEPT !.state = "returned"]
           ELSE LET iosStyledMessage == convertToIOSStyle(ConvertInput(t))
                IN  [@ EXCEPT !.iosStyledMessage = iosStyledMessage,
                              !.state = IF ShouldReply(ConvertInput(t), iosStyledMessage)
                                        THEN "reply" ELSE "returned"]]
    /\ UNCHANGED <<settings, replies, convertVars, sessionVars>>

ReplySent(t) ==
    /\ tasks[t].state = "reply"
    /\ replies' = [replies EXCEPT ![t] =
                      Append(@, ReplyPrefix \o tasks[t].iosStyledMessage)]
    /\ tasks' = [tasks EXCEPT ![t].state = "returned"]
    /\ UNCHANGED <<settings, convertVars, sessionVars>>

ReplyThrows(t) ==
    /\ tasks[t].state = "reply"
    /\ tasks' = [tasks EXCEPT ![t].state = "returned", ![t].threw = TRUE]
    /\ UNCHANGED <<settings, replies, convertVars, sessionVars>>

InitBot ==
    /\ settings \in [ignoreGroups : BOOLEAN, ignoreBroadcasts : BOOLEAN,
                     onlyProcessFormatted : BOOLEAN]
    /\ BotAtStart
    /\ ConvertAtRest
    /\ SessionAtStart

NextBot ==
    \E t \in Tasks :
        \/ Receive(t)
        \/ GetChatThrows(t)
        \/ GetChatResolves(t)
        \/ ReplySent(t)
        \/ ReplyThrows(t)

SpecBot == InitBot /\ [][NextBot]_vars

(***************************************************************************)
(* The client events and the two routes of the dashboard (part_000).       *)
(***************************************************************************)
OnQr(qr) ==
    /\ Len(events) < MaxEvents
    /\ qrCodeData' = qr
    /\ events' = Append(events, "qr")
    /\ UNCHANGED <<isClientReady, response, convertVars, botVars>>

OnReady ==
    /\ Len(events) < MaxEvents
    /\ isClientReady' = TRUE
    /\ qrCodeData' = QrAfterReady(qrCodeData)
    /\ events' = Append(events, "ready")
    /\ UNCHANGED <<response, convertVars, botVars>>

OnDisconnected ==
    /\ Len(events) < MaxEvents
    /\ isClientReady' = FALSE
    /\ events' = Append(events, "disconnected")
    /\ UNCHANGED <<qrCodeData, response, convertVars, botVars>>

GetStatus ==
    /\ response' = [route |-> "status", at |-> Len(events),
                    connected |-> isClientReady,
                    qrAvailable |-> qrCodeData # <<>>,
                    qrImage |-> <<>>]
    /\ UNCHANGED <<isClientReady, qrCodeData, events, convertVars, botVars>>

GetQr ==
    /\ response' = [route |-> "qr", at |-> Len(events),
                    connected |-> isClientReady,
                    qrAvailable |-> qrCodeData # <<>>,
                    qrImage |-> IF qrCodeData = <<>> THEN <<>>
                                ELSE <<generateImageURL(qrCodeData)>>]
    /\ UNCHANGED <<isClientReady, qrCodeData, events, convertVars, botVars>>

InitSession ==
    /\ SessionAtStart
    /\ ConvertAtRest
    /\ BotAtRest

NextSession ==
    \/ \E qr \in QrCodes : OnQr(qr)
    \/ OnReady
    \/ OnDisconnected
    \/ GetStatus
    \/ GetQr

SpecSession == InitSession /\ [][NextSession]_vars



(***************************************************************************)
(* Vocabulary of the properties.  LastPass names the assignment that has   *)
(* just run, so that (before, styledText) is that pass's input and output. *)
(***************************************************************************)
LastPass == IF pc > 1 THEN PassOrder[pc - 1] ELSE "none"

CharStyles == {"bold", "italic", "strike"}

Delimiter(style) ==
    CASE style = "bold" -> Star
      [] style = "italic" -> Underscore
      [] style = "strike" -> Tilde

Marker == <<Backtick, Backtick, Backtick>>

Positions(s, d) == {i \in 1..Len(s) : s[i] = d}

LastOf(P) == CHOOSE i \in P : \A j \in P : j <= i

NoneAdjacent(s, d) == \A i \in Positions(s, d) : (i + 1) \notin Positions(s, d)

EndsWith(s, t) ==
    /\ Len(s) >= Len(t)
    /\ SubSeq(s, Len(s) - Len(t) + 1, Len(s)) = t

RECURSIVE ScalarsFrom(_, _)
ScalarsFrom(s, i) ==
    IF i > Len(s) THEN <<>>
    ELSE <<CodePointAt(s, i)>> \o ScalarsFrom(s, i + WidthAt(s, i))

Scalars(s) == ScalarsFrom(s, 1)

(***************************************************************************)
(* The glyph tables as the specification gives them, by scalar value:      *)
(* Bold A-Z from U+1D5D4, a-z from U+1D5EE, 0-9 from U+1D7EC; Italic A-Z   *)
(* from U+1D608, a-z from U+1D622, no digits; Monospace A-Z from U+1D670,  *)
(* a-z from U+1D68A, 0-9 from U+1D7F6.                                     *)
(***************************************************************************)
GlyphOf(style, cp) ==
    LET upper == CASE style = "bold" -> 120276
                   [] style = "italic" -> 120328
                   [] style = "mono" -> 120432
        lower == CASE style = "bold" -> 120302
                   [] style = "italic" -> 120354
                   [] style = "mono" -> 120458
        digit == CASE style = "bold" -> 120812
                   [] style = "italic" -> 0
                   [] style = "mono" -> 120822
    IN  IF cp \in 65..90 THEN upper + (cp - 65)
        ELSE IF cp \in 97..122 THEN lower + (cp - 97)
        ELSE IF cp \in 48..57 /\ style # "italic" THEN digit + (cp - 48)
        ELSE cp

Glyphs(style, cps) == [i \in 1..Len(cps) |-> GlyphOf(style, cps[i])]

(***************************************************************************)
(* s is open + interior + close for the style, with a non-empty interior   *)
(* free of the style's delimiter character.                                *)
(***************************************************************************)
IsOneSpan(s, style) ==
    IF style = "mono"
    THEN /\ Len(s) >= 7
         /\ SubSeq(s, 1, 3) = Marker
         /\ SubSeq(s, Len(s) - 2, Len(s)) = Marker
         /\ Positions(s, Backtick) = (1..3) \cup ((Len(s) - 2)..Len(s))
    ELSE /\ Len(s) >= 3
         /\ Positions(s, Delimiter(style)) = {1, Len(s)}

Interior(s, style) ==
    IF style = "mono" THEN SubSeq(s, 4, Len(s) - 3) ELSE SubSeq(s, 2, Len(s) - 1)

(***************************************************************************)
(* C1.  For Bold, Italic and Monospace, a pass whose input is exactly one  *)
(* span (delimiter, non-empty interior without the delimiter character,    *)
(* delimiter) outputs the interior with each scalar value mapped through   *)
(* the style's glyph table and both delimiters removed; scalar values      *)
(* outside the table, digits in Italic included, are unchanged.            *)
(***************************************************************************)
C1_SpanMapsInterior ==
    \A style \in {"bold", "italic", "mono"} :
        (LastPass = style /\ IsOneSpan(before, style))
            => Scalars(styledText) = Glyphs(style, Scalars(Interior(before, style)))

C1_Witness ==
    /\ LastPass = "italic"
    /\ before = <<Underscore, 65, 57, Underscore>>
    /\ styledText = <<55349, 56840, 57>>

(***************************************************************************)
(* The output of a one-character style's pass when its delimiters pair by  *)
(* parity: the 1st with the 2nd, the 3rd with the 4th, and so on; a last   *)
(* delimiter without a partner stays.  k counts the delimiters paired so   *)
(* far, so a unit is inside a span exactly when k is odd.                  *)
(***************************************************************************)
RECURSIVE ByParity(_, _, _, _)
ByParity(s, i, style, k) ==
    IF i > Len(s) THEN <<>>
    ELSE IF s[i] = Delimiter(style)
    THEN IF k % 2 = 0 /\ \A j \in (i + 1)..Len(s) : s[j] # Delimiter(style)
         THEN <<s[i]>> \o ByParity(s, i + 1, style, k)
         ELSE ByParity(s, i + 1, style, k + 1)
    ELSE (IF k % 2 = 1 THEN Replacement(style, <<s[i]>>) ELSE <<s[i]>>)
             \o ByParity(s, i + 1, style, k)

PassOutput(style, t) ==
    CASE style = "bold" -> convertBold(t)
      [] style = "italic" -> convertItalic(t)
      [] style = "strike" -> convertStrikethrough(t)
      [] style = "mono" -> convertMonospace(t)

IsOdd(n) == n % 2 = 1

(***************************************************************************)
(* The triple-backtick markers of s that stand alone (no fourth backtick   *)
(* on either side), and whether every backtick of s is in one of them.     *)
(***************************************************************************)
MarkerStarts(s) ==
    {i \in 1..(Len(s) - 2) :
        /\ SubSeq(s, i, i + 2) = Marker
        /\ (i = 1 \/ s[i - 1] # Backtick)
        /\ (i + 3 > Len(s) \/ s[i + 3] # Backtick)}

OnlyMarkers(s) ==
    Positions(s, Backtick) = UNION {i..(i + 2) : i \in MarkerStarts(s)}

(***************************************************************************)
(* C2 as stated.  When a convert call returns, for an input with an odd    *)
(* number of a style's delimiter (a lone one, or the last of an odd        *)
(* number), or with a lone triple backtick, the output ends with the last  *)
(* delimiter and all the input text that followed it, verbatim.            *)
(***************************************************************************)
C2_ConvertKeepsUnmatchedTail ==
    pc = NumPasses + 1 =>
        /\ \A style \in CharStyles :
               IsOdd(Cardinality(Positions(text, Delimiter(style))))
                   => EndsWith(styledText,
                               SubSeq(text, LastOf(Positions(text, Delimiter(style))),
                                      Len(text)))
        /\ (Cardinality(MarkerStarts(text)) = 1 /\ OnlyMarkers(text))
               => EndsWith(styledText,
                           SubSeq(text, LastOf(MarkerStarts(text)), Len(text)))

(***************************************************************************)
(* C2 amended.  The style's own pass never consumes an unmatched           *)
(* delimiter: when the pass's input holds an odd number of the style's     *)
(* delimiters, no two of them adjacent (for Monospace: an odd number of    *)
(* stand-alone triple backticks and no other backtick), the pass's output  *)
(* ends with the last delimiter and all text after it, verbatim, and, for  *)
(* a one-character style, holds that delimiter character exactly once.     *)
(***************************************************************************)
C2_PassKeepsUnmatchedTail ==
    /\ \A style \in CharStyles :
           (/\ LastPass = style
            /\ IsOdd(Cardinality(Positions(before, Delimiter(style))))
            /\ NoneAdjacent(before, Delimiter(style)))
               => /\ EndsWith(styledText,
                              SubSeq(before, LastOf(Positions(before, Delimiter(style))),
                                     Len(before)))
                  /\ Cardinality(Positions(styledText, Delimiter(style))) = 1
    /\ (/\ LastPass = "mono"
        /\ IsOdd(Cardinality(MarkerStarts(before)))
        /\ OnlyMarkers(before))
           => /\ EndsWith(styledText,
                          SubSeq(before, LastOf(MarkerStarts(before)), Len(before)))
              /\ Cardinality(Positions(styledText, Backtick)) = 3

C2_Witness ==
    /\ LastPass = "bold"
    /\ before = <<Star, 97, Star, 97, Star, 97>>
    /\ styledText = <<55349, 56814, 97, Star, 97>>

(***************************************************************************)
(* C3.  Within the pass of a one-character style, when no two of its       *)
(* delimiters are adjacent, the spans are the 1st-2nd, 3rd-4th, ...        *)
(* delimiters: interiors are replaced by their styled form, delimiters of  *)
(* spans are dropped, and the text between two spans is left as it was:    *)
(* star a star b star c star gives the two spans a and c, b unstyled.      *)
(***************************************************************************)
C3_SpansPairLeftToRight ==
    \A style \in CharStyles :
        (LastPass = style /\ NoneAdjacent(before, Delimiter(style)))
            => styledText = ByParity(before, 1, style, 0)

C3_Witness ==
    /\ LastPass = "bold"
    /\ before = <<Star, 97, Star, 97, Star, 97, Star>>
    /\ styledText = <<55349, 56814, 97, 55349, 56814>>

(***************************************************************************)
(* C4 as stated.  Two adjacent delimiters at the start of a pass's input   *)
(* are a span with an empty interior: both are removed and the rest of the *)
(* input is rewritten as if it stood alone: two stars give the empty       *)
(* string, and star star a star gives a star.                              *)
(***************************************************************************)
C4_EmptySpanCollapses ==
    \A style \in CharStyles :
        (/\ LastPass = style
         /\ Len(before) >= 2
         /\ before[1] = Delimiter(style)
         /\ before[2] = Delimiter(style)
         /\ NoneAdjacent(SubSeq(before, 3, Len(before)), Delimiter(style)))
            => styledText = ByParity(SubSeq(before, 3, Len(before)), 1, style, 0)

(***************************************************************************)
(* C4 amended.  A zero-length interior is no span: when a pass's input     *)
(* begins with two adjacent delimiters (for Monospace, two adjacent triple *)
(* backticks), the first delimiter character is emitted verbatim and the   *)
(* rest of the output is what the pass makes of the input from its second  *)
(* character on: two stars alone stay two stars, and star star a star      *)
(* becomes a star followed by bold a.                                      *)
(***************************************************************************)
C4_AdjacentDelimitersStay ==
    /\ \A style \in CharStyles :
           (/\ LastPass = style
            /\ Len(before) >= 2
            /\ before[1] = Delimiter(style)
            /\ before[2] = Delimiter(style))
               => /\ Len(styledText) >= 1
                  /\ styledText[1] = Delimiter(style)
                  /\ Tail(styledText) = PassOutput(style, Tail(before))
                  /\ (Len(before) = 2 => styledText = before)
    /\ (/\ LastPass = "mono"
        /\ Len(before) >= 6
        /\ SubSeq(before, 1, 6) = Marker \o Marker)
           => /\ Len(styledText) >= 1
              /\ styledText[1] = Backtick
              /\ Tail(styledText) = PassOutput("mono", Tail(before))
              /\ (Len(before) = 6 => styledText = before)

C4_Witness ==
    /\ LastPass = "bold"
    /\ before = <<Star, Star, 97, Star>>
    /\ styledText = <<Star, 55349, 56814>>

(***************************************************************************)
(* C5 as stated.  The Monospace pass pairs a triple backtick with the next *)
(* triple backtick: an input that is marker, interior, marker, where the   *)
(* interior is non-empty, neither starts nor ends with a backtick and      *)
(* holds no three consecutive backticks (it may hold one or two), becomes  *)
(* the Monospace transliteration of the interior, both markers dropped.    *)
(***************************************************************************)
C5_MarkerPairsAcrossBackticks ==
    (/\ LastPass = "mono"
     /\ Len(before) >= 7
     /\ SubSeq(before, 1, 3) = Marker
     /\ SubSeq(before, Len(before) - 2, Len(before)) = Marker
     /\ before[4] # Backtick
     /\ before[Len(before) - 3] # Backtick
     /\ \A i \in 4..(Len(before) - 5) : SubSeq(before, i, i + 2) # Marker)
        => Scalars(styledText) = Glyphs("mono", Scalars(SubSeq(before, 4, Len(before) - 3)))

(***************************************************************************)
(* C6 as stated.  A strikethrough pass whose input is one span outputs     *)
(* every scalar value of the interior followed by one U+0336, so twice as  *)
(* many scalar values as the interior has, also when the interior holds    *)
(* characters outside the Basic Multilingual Plane.                        *)
(***************************************************************************)
StruckScalars(cps) ==
    [i \in 1..(2 * Len(cps)) |->
        IF i % 2 = 1 THEN cps[(i + 1) \div 2] ELSE CombiningStroke]

C6_StrikeMarksEveryScalar ==
    (LastPass = "strike" /\ IsOneSpan(before, "strike"))
        => Scalars(styledText) = StruckScalars(Scalars(Interior(before, "strike")))

(***************************************************************************)
(* C7 as stated.  A quote pass whose input is one run between two straight *)
(* double quotes becomes the same content between U+201C and U+201D, and   *)
(* one between two straight single quotes the same content between U+2018  *)
(* and U+2019; no paired straight quote is left.                           *)
(***************************************************************************)
C7_QuotesBecomeCurly ==
    LastPass = "quotes" =>
        /\ (/\ Len(before) >= 3
            /\ Positions(before, DoubleQuote) = {1, Len(before)}
            /\ Positions(before, SingleQuote) = {})
               => styledText = <<8220>> \o SubSeq(before, 2, Len(before) - 1) \o <<8221>>
        /\ (/\ Len(before) >= 3
            /\ Positions(before, SingleQuote) = {1, Len(before)}
            /\ Positions(before, DoubleQuote) = {})
               => styledText = <<8216>> \o SubSeq(before, 2, Len(before) - 1) \o <<8217>>

(***************************************************************************)
(* C8 as stated.  The Emoji Spacer's output is its input read by scalar    *)
(* value, with one U+200B after every emoji base character that is         *)
(* followed by U+FE0F (the space after the selector), one after every      *)
(* other scalar value with emoji presentation, and nothing else inserted.  *)
(***************************************************************************)
RECURSIVE SpacedFrom(_, _)
SpacedFrom(s, i) ==
    IF i > Len(s) THEN <<>>
    ELSE IF /\ CodePointAt(s, i) \in Emoji
            /\ i + WidthAt(s, i) <= Len(s)
            /\ s[i + WidthAt(s, i)] = VariationSelector
    THEN SubSeq(s, i, i + WidthAt(s, i)) \o <<ZeroWidthSpace>>
             \o SpacedFrom(s, i + WidthAt(s, i) + 1)
    ELSE IF CodePointAt(s, i) \in EmojiPresentation
    THEN SubSeq(s, i, i + WidthAt(s, i) - 1) \o <<ZeroWidthSpace>>
             \o SpacedFrom(s, i + WidthAt(s, i))
    ELSE SubSeq(s, i, i + WidthAt(s, i) - 1) \o SpacedFrom(s, i + WidthAt(s, i))

C8_SpaceAfterEmojiAndSelector ==
    LastPass = "emoji" => styledText = SpacedFrom(before, 1)

(***************************************************************************)
(* C9.  Every call of convert runs Bold, Italic, Strikethrough, Monospace, *)
(* the Quote Normalizer and the Emoji Spacer in this order, each on the    *)
(* output of the one before: after k passes styledText is the composition  *)
(* of the first k of them on the call's argument, so the earlier style has *)
(* claimed its spans before the later style's pass reads the text.         *)
(***************************************************************************)
C9_FixedPassOrder ==
    LET b == convertBold(text)
        i == convertItalic(b)
        s == convertStrikethrough(i)
        m == convertMonospace(s)
        q == convertQuotes(m)
        e == improveEmojiSpacing(q)
    IN  /\ pc = 1 => styledText = text
        /\ pc = 2 => (before = text /\ styledText = b)
        /\ pc = 3 => (before = b /\ styledText = i)
        /\ pc = 4 => (before = i /\ styledText = s)
        /\ pc = 5 => (before = s /\ styledText = m)
        /\ pc = 6 => (before = m /\ styledText = q)
        /\ pc = 7 => (before = q /\ styledText = e)

C9_Witness ==
    /\ pc = NumPasses + 1
    /\ text = <<Underscore, 97, Star, 97, Underscore, Star>>
    /\ styledText = <<55349, 56866, 55349, 56814>>

(***************************************************************************)
(* C10.  The styled part of a string: its Bold, Italic and Monospace       *)
(* glyphs, every U+0336 and the scalar value each U+0336 follows, in       *)
(* order.  When convert is run again on an output of its own that holds no *)
(* delimiter character, the styled part of the second output is that of    *)
(* the first.                                                              *)
(***************************************************************************)
IsStyledGlyph(cp) ==
    \/ cp \in 120276..120327
    \/ cp \in 120328..120379
    \/ cp \in 120432..120483
    \/ cp \in 120812..120821
    \/ cp \in 120822..120831

RECURSIVE StyledFrom(_, _)
StyledFrom(cps, i) ==
    IF i > Len(cps) THEN <<>>
    ELSE (IF \/ IsStyledGlyph(cps[i])
             \/ cps[i] = CombiningStroke
             \/ (i < Len(cps) /\ cps[i + 1] = CombiningStroke)
          THEN <<cps[i]>> ELSE <<>>) \o StyledFrom(cps, i + 1)

StyledPart(s) == StyledFrom(Scalars(s), 1)

NoDelimiters(s) ==
    \A i \in 1..Len(s) : s[i] \notin {Star, Underscore, Tilde, Backtick}

C10_GlyphsSurviveReconvert ==
    (calls = 2 /\ pc = NumPasses + 1 /\ NoDelimiters(text))
        => StyledPart(styledText) = StyledPart(text)

C10_Witness ==
    /\ calls = 2
    /\ pc = NumPasses + 1
    /\ text = <<49, CombiningStroke, 8986, ZeroWidthSpace>>
    /\ styledText = <<49, CombiningStroke, 8986, ZeroWidthSpace, ZeroWidthSpace>>

(***************************************************************************)
(* C11.  Plain text is text without a star, underscore, tilde or backtick, *)
(* without a straight quote and without an emoji (a scalar value with      *)
(* emoji presentation, or an emoji base character followed by U+FE0F).     *)
(* convert returns plain text as it is; and each pass returns its input as *)
(* it is when the input holds no delimiter of that pass (for Monospace no  *)
(* triple backtick, for the Quote Normalizer no straight quote, for the    *)
(* Emoji Spacer no emoji).                                                 *)
(***************************************************************************)
HasEmojiIn(cps) ==
    \E i \in 1..Len(cps) :
        \/ cps[i] \in EmojiPresentation
        \/ (cps[i] \in Emoji /\ i < Len(cps) /\ cps[i + 1] = VariationSelector)

HasEmoji(s) == HasEmojiIn(Scalars(s))

HasMarker(s) == \E i \in 1..(Len(s) - 2) : SubSeq(s, i, i + 2) = Marker

HasQuote(s) == \E i \in 1..Len(s) : s[i] \in {DoubleQuote, SingleQuote}

IsPlain(s) == NoDelimiters(s) /\ ~HasQuote(s) /\ ~HasEmoji(s)

NoDelimiterOf(pass, s) ==
    CASE pass \in CharStyles -> Positions(s, Delimiter(pass)) = {}
      [] pass = "mono" -> ~HasMarker(s)
      [] pass = "quotes" -> ~HasQuote(s)
      [] pass = "emoji" -> ~HasEmoji(s)
      [] OTHER -> FALSE

C11_PlainTextUnchanged ==
    /\ (pc = NumPasses + 1 /\ IsPlain(text)) => styledText = text
    /\ NoDelimiterOf(LastPass, before) => styledText = before

C11_Witness ==
    /\ pc = NumPasses + 1
    /\ calls = 1
    /\ text = <<VariationSelector, 49, 49, 56832>>
    /\ styledText = text


(***************************************************************************)
(* Vocabulary of the claims about the message handler.  A message is       *)
(* filtered out by the settings alone; Converted is what convert returns   *)
(* for the message's own body when run alone.                              *)
(***************************************************************************)
FilteredOut(t) ==
    \/ (settings.ignoreGroups /\ tasks[t].isGroup)
    \/ (settings.ignoreBroadcasts /\ tasks[t].broadcast)
    \/ /\ settings.onlyProcessFormatted
       /\ \A i \in 1..Len(tasks[t].body) :
              tasks[t].body[i] \notin {Star, Underscore, Tilde, Backtick}

Converted(t) == convertToIOSStyle(tasks[t].body)

BoldA == <<55349, 56814>>

(***************************************************************************)
(* C12: for every inbound message the handler sends at most one reply; it  *)
(* sends one only when the body is non-empty after trimming, the message   *)
(* is not filtered out and convert(body) differs from the body, and the    *)
(* reply text is the fixed prefix followed by convert(body).  A message    *)
(* whose conversion equals its body, or whose processing throws, produces  *)
(* no reply.                                                               *)
(***************************************************************************)
C12_AtMostOneReplyWhenChanged ==
    \A t \in Tasks :
        /\ Len(replies[t]) <= 1
        /\ replies[t] # <<>> =>
               /\ ~IsBlank(tasks[t].body)
               /\ ~FilteredOut(t)
               /\ Converted(t) # tasks[t].body
               /\ replies[t][1] = ReplyPrefix \o Converted(t)
        /\ (tasks[t].state # "none" /\ Converted(t) = tasks[t].body) =>
               replies[t] = <<>>
        /\ tasks[t].threw => replies[t] = <<>>

C12_Witness ==
    /\ settings.onlyProcessFormatted
    /\ tasks[1].state = "returned"
    /\ tasks[1].body = <<Star, 97, Star>>
    /\ replies[1] = <<ReplyPrefix \o BoldA>>
    /\ tasks[2].state = "returned"
    /\ tasks[2].body = <<Star, 97, Star>>
    /\ tasks[2].threw
    /\ replies[2] = <<>>

ReadyNotFollowedBy(h, name) ==
    \E i \in 1..Len(h) :
        /\ h[i] = "ready"
        /\ \A j \in (i + 1)..Len(h) : h[j] # name

ConnectedAfter(h) == ReadyNotFollowedBy(h, "disconnected")

QrClearedAfter(h) == ReadyNotFollowedBy(h, "qr")

(***************************************************************************)
(* C14: after any sequence of 'qr', 'ready' and 'disconnected' events the  *)
(* connected flag GET /status reports is true exactly when a 'ready' has   *)
(* occurred with no 'disconnected' after it, and from each 'ready' until   *)
(* the next 'qr' the stored QR code is empty, so that GET /status reports  *)
(* qrAvailable false and GET /qr serves no QR image, also across           *)
(* 'disconnected' events in between.                                       *)
(***************************************************************************)
C14_StatusFollowsEvents ==
    /\ isClientReady = ConnectedAfter(events)
    /\ QrClearedAfter(events) => qrCodeData = <<>>
    /\ response.route # "none" =>
           LET h == SubSeq(events, 1, response.at)
           IN  /\ response.connected = ConnectedAfter(h)
               /\ QrClearedAfter(h) =>
                      /\ ~response.qrAvailable
                      /\ response.qrImage = <<>>

C14_Witness ==
    /\ events = <<"qr", "ready", "disconnected">>
    /\ response.route = "qr"
    /\ response.at = 3
    /\ ~response.connected
    /\ response.qrImage = <<>>

====
